---- MODULE Spec2Model ----
(***************************************************************************)
(* IntegerPicker of stand_alone_examples/integer_picker_example.py: a      *)
(* selector for an integer kept within [minimum, maximum], changed by      *)
(* navigation commands (_change_value) and by the setters.                 *)
(*                                                                         *)
(* Python integers are unbounded, the infinity sentinels of 'home'/'end'   *)
(* are floats: 'self._value + float("inf")' converts the integer to a      *)
(* float first and raises OverflowError when it is beyond the float range. *)
(* The model scales the float range to -FloatLimit..FloatLimit; its        *)
(* integers are the small ones, -MaxInt..MaxInt, and one beyond the float  *)
(* range on either side.                                                   *)
(***************************************************************************)
EXTENDS Integers, Sequences, FiniteSets, TLC

\* ---------------------------------------------------------------- bounds
MaxInt == 2
MaxStep == 2
MaxJump == 3
\* The longest recorded sequence of commands
MaxTrace == 7

\* The largest magnitude float(int) converts; beyond it int + float raises
\* OverflowError (scaled from about 1.8e308)
FloatLimit == 10

\* The arguments of the constructor and of the setters: small integers and
\* the integers next beyond the float range
Ints == ((-MaxInt)..MaxInt) \cup {-(FloatLimit + 1), FloatLimit + 1}
StepLens == 1..MaxStep
JumpLens == (MaxJump - 1)..MaxJump


\* ------------------------------------------------- numbers with infinities
\* A summand / candidate is an integer or float("inf") / float("-inf").
Fin(n) == [inf |-> 0, n |-> n]
PosInf == [inf |-> 1, n |-> 0]
NegInf == [inf |-> -1, n |-> 0]

\* summand < 0, summand > 0
IsNeg(s) == IF s.inf = 0 THEN s.n < 0 ELSE s.inf < 0
IsPos(s) == IF s.inf = 0 THEN s.n > 0 ELSE s.inf > 0

\* a < b with the operands exchanged
Lt_swapped(a, b) == IF a.inf = 0 /\ b.inf = 0 THEN b.n < a.n ELSE b.inf < a.inf

\* a < b (Python compares int with float exactly, also beyond the float range)
Lt(a, b) == IF a.inf = 0 /\ b.inf = 0 THEN a.n < b.n ELSE a.inf < b.inf

\* -summand
Neg(s) == [inf |-> -s.inf, n |-> -s.n]

\* float(v) raises OverflowError
FloatOverflows(v) == v > FloatLimit \/ v < -FloatLimit

\* v + s raises OverflowError: the int operand is converted when s is a float
AddOverflows(v, s) == s.inf # 0 /\ FloatOverflows(v)

\* v + s (when it does not raise)
Add(v, s) == IF s.inf = 0 THEN Fin(v + s.n) ELSE s

\* ------------------------------------------------------------- formatting
Digit(d) == <<"0", "1", "2", "3", "4", "5", "6", "7", "8", "9">>[d + 1]

RECURSIVE Digits(_)
Digits(n) == IF n < 10 THEN <<Digit(n)>> ELSE Digits(n \div 10) \o <<Digit(n % 10)>>

\* display_syntax.format(value) for the default display_syntax "{}"
Format(v) == IF v < 0 THEN <<"-">> \o Digits(-v) ELSE Digits(v)

\* ---------------------------------------------------------- modifier keys
\* Key and event names are sequences of words, "ctrl page up" is
\* <<"ctrl", "page", "up">>; the separator " " stands between two words.

\* class MODIFIER_KEY: the members and their values
MODIFIER_KEY ==
    [NONE |-> <<>>, SHIFT |-> <<"shift">>, ALT |-> <<"meta">>, CTRL |-> <<"ctrl">>,
     SHIFT_ALT |-> <<"shift", "meta">>, SHIFT_CTRL |-> <<"shift", "ctrl">>,
     ALT_CTRL |-> <<"meta", "ctrl">>, SHIFT_ALT_CTRL |-> <<"shift", "meta", "ctrl">>]

\* MODIFIER_KEY.prepend_to(text)
prepend_to(m, text) == IF m # "NONE" THEN MODIFIER_KEY[m] \o text ELSE text

\* The modifier keys a picker of the model is constructed with
Modifiers == {"NONE", "CTRL"}

\* The keys keypress interprets, without modifier
NavigationKeys == {<<"up">>, <<"down">>, <<"page", "up">>, <<"page", "down">>,
                   <<"home">>, <<"end">>}

\* The keys the user presses: the navigation keys plain and with a modifier,
\* and a key the picker does not know
Keys == NavigationKeys
        \cup {prepend_to("CTRL", k) : k \in NavigationKeys}
        \cup {<<"enter">>}

\* The mouse events, buttons (4, 5: wheel up, wheel down) and focus flags
Events == {<<"mouse", "press">>, <<"ctrl", "mouse", "press">>}
Buttons == {1, 4, 5}

\* ------------------------------------------------------------------ state
VARIABLES
    value,                          \* self._value
    minimum,                        \* self._minimum
    maximum,                        \* self._maximum
    step_len,                       \* self._step_len
    jump_len,                       \* self._jump_len
    ascending,                      \* self._ascending
    return_unused_navigation_input, \* self._return_unused_navigation_input
    on_selection_change,            \* TRUE iff a hook is set (is not None)
    modifier_key,                   \* self._modifier_key, the name of a MODIFIER_KEY member
    display,                        \* text of self._display
    top_bar,                        \* markup and attribute map of self._top_bar
    bottom_bar,                     \* markup and attribute map of self._bottom_bar
    calls,                          \* hook invocations of the latest call, in order
    seen,                           \* the display text at each of these invocations
    entered,                        \* value, minimum, maximum as each invocation began
    left,                           \* value, minimum, maximum as each invocation ended
    reaction,                       \* what the client's hook does with the picker
    last,                           \* the latest call: name, argument, state before, outcome
    trace,                          \* the commands given since construction (SpecScenario)
    log,                            \* the hook invocations since construction (SpecScenario)
    streak,                         \* presses of one key in a row: the consumed ones,
                                    \* and whether the latest was passed on (SpecFocus)
    built                           \* the arguments of the constructor call (SpecLifetime)

vars == <<value, minimum, maximum, step_len, jump_len, ascending,
          return_unused_navigation_input, on_selection_change, modifier_key, display,
          top_bar, bottom_bar, calls, seen, entered, left, reaction, last, trace, log,
          streak, built>>

config == <<step_len, jump_len, ascending, return_unused_navigation_input,
            on_selection_change, modifier_key, reaction>>

\* What only the specifications of a session (SpecScenario, SpecFocus,
\* SpecLifetime) record
history == <<trace, log, streak, built>>

\* A field no assignment has created yet, a record not kept
Unset == "unset"

\* The bars, which only render writes
bars == <<top_bar, bottom_bar>>

\* The mutable fields of the object, as the methods below read and write them
self == [value |-> value, minimum |-> minimum, maximum |-> maximum,
         display |-> display, calls |-> <<>>, seen |-> <<>>, entered |-> <<>>,
         left |-> <<>>, returned |-> "None"]

\* The hook is the client's function. It runs inside the method that calls it
\* and can hold the picker, so it may call the picker's methods in turn; the
\* class has no guard against that. A reaction is the call the function makes
\* each time it is invoked, or Nothing. The nesting ends by itself: set_value
\* with the value already selected and _change_value at the bound invoke no
\* hook.
Nothing == [op |-> "nothing", arg |-> Fin(0)]

Reactions ==
    {Nothing}
    \cup {[op |-> "set_value", arg |-> Fin(v)] : v \in (-MaxInt)..MaxInt}
    \cup {[op |-> "_change_value", arg |-> d] : d \in {Fin(-MaxJump), Fin(MaxJump), NegInf, PosInf}}

\* value, minimum and maximum of the object
Fields(s) == [value |-> s.value, minimum |-> s.minimum, maximum |-> s.maximum]

\* The call raised
raised(s) == s.returned \in {"ValueError", "OverflowError"}

RECURSIVE set_value(_, _), change_value(_, _)

\* The body of the client's function, run on the object as the method left it.
\* An exception of the nested call is not caught: it leaves the function and
\* then the method that invoked it.
callback(s) ==
    LET t == IF reaction.op = "set_value" THEN set_value(s, reaction.arg.n)
             ELSE IF reaction.op = "_change_value" THEN change_value(s, reaction.arg)
             ELSE s
    IN  [t EXCEPT !.left = Append(@, Fields(t)),
                  !.returned = IF raised(t) THEN @ ELSE s.returned]

\* The hook called with its arguments exchanged
Hook_swapped(s, before, after) ==
    IF on_selection_change
    THEN callback([s EXCEPT !.calls = Append(@, <<after, before>>),
                            !.seen = Append(@, s.display),
                            !.entered = Append(@, Fields(s))])
    ELSE s

\* on_selection_change(before, after), when the hook exists
Hook(s, before, after) ==
    IF on_selection_change
    THEN callback([s EXCEPT !.calls = Append(@, <<before, after>>),
                            !.seen = Append(@, s.display),
                            !.entered = Append(@, Fields(s))])
    ELSE s

\* ---------------------------------------------------------------- methods
\* Each method maps the object's fields before the call to the fields after
\* it, with the hook invocations it made and what it returned or raised.

\* IntegerPicker._change_value(summand)
change_value(s, summand) ==
    LET limit_reached ==
            [s EXCEPT !.returned = IF return_unused_navigation_input THEN "False" ELSE "True"]
        \* lines 279-287: refresh the display, run the hook if the value changed
        finish(t) ==
            LET u == [t EXCEPT !.display = Format(t.value)]
                w == IF s.value # u.value THEN Hook(u, s.value, u.value) ELSE u
            IN  IF raised(w) THEN w ELSE [w EXCEPT !.returned = "True"]
    IN  IF AddOverflows(s.value, summand)
        THEN [s EXCEPT !.returned = "OverflowError"]
        ELSE IF ascending
        THEN LET new_value == Add(s.value, summand)
             IN  IF IsNeg(summand)
                 THEN IF s.value = s.minimum THEN limit_reached
                      ELSE IF Lt(Fin(s.minimum), new_value)
                           THEN finish([s EXCEPT !.value = new_value.n])
                           ELSE finish([s EXCEPT !.value = s.minimum])
                 ELSE IF IsPos(summand)
                 THEN IF s.value = s.maximum THEN limit_reached
                      ELSE IF Lt(new_value, Fin(s.maximum))
                           THEN finish([s EXCEPT !.value = new_value.n])
                           ELSE finish([s EXCEPT !.value = s.maximum])
                 ELSE finish(s)
        ELSE LET new_value == Add(s.value, Neg(summand))
             IN  IF IsNeg(summand)
                 THEN IF s.value = s.maximum THEN limit_reached
                      ELSE IF Lt(new_value, Fin(s.maximum))
                           THEN finish([s EXCEPT !.value = new_value.n])
                           ELSE finish([s EXCEPT !.value = s.maximum])
                 ELSE IF IsPos(summand)
                 THEN IF s.value = s.minimum THEN limit_reached
                      ELSE IF Lt(Fin(s.minimum), new_value)
                           THEN finish([s EXCEPT !.value = new_value.n])
                           ELSE finish([s EXCEPT !.value = s.minimum])
                 ELSE finish(s)

\* keypress that never hands a navigation key back
keypress_always_consumes(s, key) ==
    LET unknown == [s EXCEPT !.returned = "False"]
        successful ==
            IF key = prepend_to(modifier_key, <<"up">>)
            THEN [change_value(s, Fin(-step_len)) EXCEPT !.returned = "True"]
            ELSE IF key = prepend_to(modifier_key, <<"down">>)
            THEN [change_value(s, Fin(step_len)) EXCEPT !.returned = "True"]
            ELSE IF key = prepend_to(modifier_key, <<"page", "up">>)
            THEN [change_value(s, Fin(-jump_len)) EXCEPT !.returned = "True"]
            ELSE IF key = prepend_to(modifier_key, <<"page", "down">>)
            THEN [change_value(s, Fin(jump_len)) EXCEPT !.returned = "True"]
            ELSE IF key = prepend_to(modifier_key, <<"home">>)
            THEN change_value(s, NegInf)
            ELSE IF key = prepend_to(modifier_key, <<"end">>)
            THEN change_value(s, PosInf)
            ELSE unknown
    IN  [successful EXCEPT !.returned =
            IF @ = "True" THEN "None" ELSE IF @ = "False" THEN "key" ELSE @]

\* keypress that compares with the plain key names, whatever the modifier key
keypress_unmodified(s, key) ==
    LET unknown == [s EXCEPT !.returned = "False"]
        successful ==
            IF key = <<"up">>
            THEN change_value(s, Fin(-step_len))
            ELSE IF key = <<"down">>
            THEN change_value(s, Fin(step_len))
            ELSE IF key = <<"page", "up">>
            THEN change_value(s, Fin(-jump_len))
            ELSE IF key = <<"page", "down">>
            THEN change_value(s, Fin(jump_len))
            ELSE IF key = <<"home">>
            THEN change_value(s, NegInf)
            ELSE IF key = <<"end">>
            THEN change_value(s, PosInf)
            ELSE unknown
    IN  [successful EXCEPT !.returned =
            IF @ = "True" THEN "None" ELSE IF @ = "False" THEN "key" ELSE @]

\* IntegerPicker.keypress(size, key); "key" stands for the key returned as it came
keypress(s, key) ==
    LET unknown == [s EXCEPT !.returned = "False"]
        successful ==
            IF key = prepend_to(modifier_key, <<"up">>)
            THEN change_value(s, Fin(-step_len))
            ELSE IF key = prepend_to(modifier_key, <<"down">>)
            THEN change_value(s, Fin(step_len))
            ELSE IF key = prepend_to(modifier_key, <<"page", "up">>)
            THEN change_value(s, Fin(-jump_len))
            ELSE IF key = prepend_to(modifier_key, <<"page", "down">>)
            THEN change_value(s, Fin(jump_len))
            ELSE IF key = prepend_to(modifier_key, <<"home">>)
            THEN change_value(s, NegInf)
            ELSE IF key = prepend_to(modifier_key, <<"end">>)
            THEN change_value(s, PosInf)
            ELSE unknown
    IN  [successful EXCEPT !.returned =
            IF @ = "True" THEN "None" ELSE IF @ = "False" THEN "key" ELSE @]

\* mouse_event that does not look at focus
mouse_event_unfocused(s, event, button, focus) ==
    LET wheel(summand) ==
            LET result == change_value(s, summand)
            IN  IF return_unused_navigation_input \/ raised(result)
                THEN result
                ELSE [result EXCEPT !.returned = "True"]
    IN  IF event = prepend_to(modifier_key, <<"mouse", "press">>) /\ button = 4
        THEN wheel(Fin(-jump_len))
        ELSE IF event = prepend_to(modifier_key, <<"mouse", "press">>) /\ button = 5
        THEN wheel(Fin(jump_len))
        ELSE [s EXCEPT !.returned = "False"]

\* IntegerPicker.mouse_event(size, event, button, col, row, focus)
mouse_event(s, event, button, focus) ==
    LET wheel(summand) ==
            LET result == change_value(s, summand)
            IN  IF return_unused_navigation_input \/ raised(result)
                THEN result
                ELSE [result EXCEPT !.returned = "True"]
    IN  IF focus /\ event = prepend_to(modifier_key, <<"mouse", "press">>) /\ button = 4
        THEN wheel(Fin(-jump_len))
        ELSE IF focus /\ event = prepend_to(modifier_key, <<"mouse", "press">>) /\ button = 5
        THEN wheel(Fin(jump_len))
        ELSE [s EXCEPT !.returned = "False"]

\* set_value that runs the hook before it refreshes the display
set_value_hook_first(s, v) ==
    IF ~(s.minimum <= v /\ v <= s.maximum)
    THEN [s EXCEPT !.returned = "ValueError"]
    ELSE IF v # s.value
    THEN [Hook([s EXCEPT !.value = v], s.value, v) EXCEPT !.display = Format(v)]
    ELSE s

\* set_value without the 'value != self._value' test
set_value_always_notifies(s, v) ==
    IF ~(s.minimum <= v /\ v <= s.maximum)
    THEN [s EXCEPT !.returned = "ValueError"]
    ELSE Hook([s EXCEPT !.value = v, !.display = Format(v)], s.value, v)

\* set_value without the range check
set_value_unchecked(s, v) ==
    IF v # s.value
    THEN Hook([s EXCEPT !.value = v, !.display = Format(v)], s.value, v)
    ELSE s

\* IntegerPicker.set_value(value)
set_value(s, v) ==
    IF ~(s.minimum <= v /\ v <= s.maximum)
    THEN [s EXCEPT !.returned = "ValueError"]
    ELSE IF v # s.value
    THEN Hook([s EXCEPT !.value = v, !.display = Format(v)], s.value, v)
    ELSE s

\* set_to_minimum that selects the other bound
set_to_minimum_swapped(s) == set_value(s, s.maximum)

\* IntegerPicker.set_to_minimum()
set_to_minimum(s) == set_value(s, s.minimum)

\* set_to_maximum that selects the other bound
set_to_maximum_swapped(s) == set_value(s, s.minimum)

\* IntegerPicker.set_to_maximum()
set_to_maximum(s) == set_value(s, s.maximum)

\* set_minimum that does not move a stranded value
set_minimum_no_clamp(s, new_min) ==
    IF new_min > s.maximum
    THEN [s EXCEPT !.returned = "ValueError"]
    ELSE [s EXCEPT !.minimum = new_min]

\* set_minimum that assigns before it checks the order of the bounds
set_minimum_assign_first(s, new_min) ==
    LET t == [s EXCEPT !.minimum = new_min]
    IN  IF new_min > s.maximum
        THEN [t EXCEPT !.returned = "ValueError"]
        ELSE IF t.value < new_min THEN set_to_minimum(t) ELSE t

\* set_minimum that moves a stranded value before it assigns the new minimum
set_minimum_clamp_first(s, new_min) ==
    IF new_min > s.maximum
    THEN [s EXCEPT !.returned = "ValueError"]
    ELSE LET t == IF s.value < new_min THEN set_value(s, new_min) ELSE s
         IN  IF raised(t) THEN t ELSE [t EXCEPT !.minimum = new_min]

\* IntegerPicker.set_minimum(new_min)
set_minimum(s, new_min) ==
    IF new_min > s.maximum
    THEN [s EXCEPT !.returned = "ValueError"]
    ELSE LET t == [s EXCEPT !.minimum = new_min]
         IN  IF t.value < new_min THEN set_to_minimum(t) ELSE t

\* IntegerPicker.set_maximum(new_max)
set_maximum(s, new_max) ==
    IF new_max < s.minimum
    THEN [s EXCEPT !.returned = "ValueError"]
    ELSE LET t == [s EXCEPT !.maximum = new_max]
         IN  IF t.value > new_max THEN set_to_maximum(t) ELSE t

\* ----------------------------------------------------------------- actions
\* The summands keypress and mouse_event pass to _change_value
Summands == {Fin(-step_len), Fin(step_len), Fin(-jump_len), Fin(jump_len), NegInf, PosInf}

\* A call returns: the fields are as the method left them
Returns(op, arg, out) ==
    /\ value' = out.value
    /\ minimum' = out.minimum
    /\ maximum' = out.maximum
    /\ display' = out.display
    /\ calls' = out.calls
    /\ seen' = out.seen
    /\ entered' = out.entered
    /\ left' = out.left
    /\ last' = [op |-> op, arg |-> arg, value |-> value, minimum |-> minimum,
                maximum |-> maximum, display |-> display, returned |-> out.returned]
    /\ UNCHANGED <<config, bars>>

\* A call outside a recorded session
Call(op, arg, out) == Returns(op, arg, out) /\ UNCHANGED history

ChangeValue == \E summand \in Summands : Call("_change_value", summand, change_value(self, summand))

SetValue == \E v \in Ints : Call("set_value", Fin(v), set_value(self, v))

SetToMinimum == Call("set_to_minimum", Fin(0), set_to_minimum(self))

SetToMaximum == Call("set_to_maximum", Fin(0), set_to_maximum(self))

SetMinimum == \E new_min \in Ints : Call("set_minimum", Fin(new_min), set_minimum(self, new_min))

SetMaximum == \E new_max \in Ints : Call("set_maximum", Fin(new_max), set_maximum(self, new_max))

Keypress == \E key \in Keys : Call("keypress", [key |-> key], keypress(self, key))

MouseEvent ==
    \E event \in Events, button \in Buttons, focus \in BOOLEAN :
        Call("mouse_event", [event |-> event, button |-> button, focus |-> focus],
             mouse_event(self, event, button, focus))

\* IntegerPicker.__init__ with arguments that pass its two assertions
Constructed ==
    /\ value \in Ints
    /\ minimum \in Ints
    /\ maximum \in Ints
    /\ minimum <= maximum
    /\ minimum <= value /\ value <= maximum
    /\ step_len \in StepLens
    /\ jump_len \in JumpLens
    /\ ascending \in BOOLEAN
    /\ return_unused_navigation_input \in BOOLEAN
    /\ on_selection_change \in BOOLEAN
    /\ display = Format(value)
    /\ top_bar = [text |-> "", attr |-> "None"]
    /\ bottom_bar = [text |-> "", attr |-> "None"]
    /\ calls = <<>>
    /\ seen = <<>>
    /\ entered = <<>>
    /\ left = <<>>
    /\ trace = <<>>
    /\ log = <<>>
    /\ streak = [key |-> <<>>, n |-> 0, passed |-> FALSE]
    /\ built = Unset
    /\ last = [op |-> "__init__", arg |-> Fin(value), value |-> value, minimum |-> minimum,
               maximum |-> maximum, display |-> Format(value), returned |-> "None"]

Next ==
    \/ ChangeValue
    \/ SetValue
    \/ SetToMinimum
    \/ SetToMaximum
    \/ SetMinimum
    \/ SetMaximum

\* The picker used through its methods, without modifier key
Init == Constructed /\ modifier_key = "NONE" /\ reaction = Nothing

Spec == Init /\ [][Next]_vars

\* The picker driven by the toolkit's input: keys and mouse events
InitInput == Constructed /\ modifier_key \in Modifiers /\ reaction = Nothing

NextInput ==
    \/ Keypress
    \/ MouseEvent

SpecInput == InitInput /\ [][NextInput]_vars

\* The picker with a hook that calls back into the picker
InitReentrant ==
    /\ Constructed
    /\ modifier_key = "NONE"
    /\ jump_len = MaxJump
    /\ return_unused_navigation_input
    /\ on_selection_change
    /\ reaction \in Reactions

SpecReentrant == InitReentrant /\ [][Next]_vars

\* render that takes minimum for the top end whatever the arrangement
render_ascending_only(s, focus) ==
    [top_bar |->
        IF s.value = s.minimum
        THEN [text |-> "topBar_endExposed_markup",
              attr |-> IF focus THEN "topBar_endExposed_focus"
                                ELSE "topBar_endExposed_offFocus"]
        ELSE [text |-> "topBar_endCovered_markup",
              attr |-> IF focus THEN "topBar_endCovered_focus"
                                ELSE "topBar_endCovered_offFocus"],
     bottom_bar |->
        IF s.value = s.maximum
        THEN [text |-> "bottomBar_endExposed_markup",
              attr |-> IF focus THEN "bottomBar_endExposed_focus"
                                ELSE "bottomBar_endExposed_offFocus"]
        ELSE [text |-> "bottomBar_endCovered_markup",
              attr |-> IF focus THEN "bottomBar_endCovered_focus"
                                ELSE "bottomBar_endCovered_offFocus"]]

\* IntegerPicker.render(size, focus): what it writes to the two bars; markup
\* and attribute maps are named after the fields that hold them
render(s, focus) ==
    [top_bar |->
        IF s.value = (IF ascending THEN s.minimum ELSE s.maximum)
        THEN [text |-> "topBar_endExposed_markup",
              attr |-> IF focus THEN "topBar_endExposed_focus"
                                ELSE "topBar_endExposed_offFocus"]
        ELSE [text |-> "topBar_endCovered_markup",
              attr |-> IF focus THEN "topBar_endCovered_focus"
                                ELSE "topBar_endCovered_offFocus"],
     bottom_bar |->
        IF s.value = (IF ascending THEN s.maximum ELSE s.minimum)
        THEN [text |-> "bottomBar_endExposed_markup",
              attr |-> IF focus THEN "bottomBar_endExposed_focus"
                                ELSE "bottomBar_endExposed_offFocus"]
        ELSE [text |-> "bottomBar_endCovered_markup",
              attr |-> IF focus THEN "bottomBar_endCovered_focus"
                                ELSE "bottomBar_endCovered_offFocus"]]

\* The toolkit draws the picker
Render ==
    \E focus \in BOOLEAN :
        LET out == render(self, focus)
        IN  /\ top_bar' = out.top_bar
            /\ bottom_bar' = out.bottom_bar
            /\ calls' = <<>>
            /\ seen' = <<>>
            /\ entered' = <<>>
            /\ left' = <<>>
            /\ last' = [op |-> "render", arg |-> [focus |-> focus], value |-> value,
                        minimum |-> minimum, maximum |-> maximum, display |-> display,
                        returned |-> "canvas"]
            /\ UNCHANGED <<value, minimum, maximum, display, config, history>>

NextRender ==
    \/ ChangeValue
    \/ Render

\* The picker on the screen: commands and redraws in any order
SpecRender == Init /\ [][NextRender]_vars

\* The user keeps a picker without modifier key focused and presses navigation
\* keys; a key that comes back goes to the neighbouring widget
Press ==
    \E key \in NavigationKeys :
        LET out == keypress(self, key)
            n == IF streak.key = key /\ ~streak.passed THEN streak.n ELSE 0
        IN  /\ Returns("keypress", [key |-> key], out)
            /\ streak' = IF out.returned = "None"
                          THEN [key |-> key, n |-> n + 1, passed |-> FALSE]
                          ELSE IF out.returned = "key"
                          THEN [key |-> key, n |-> n, passed |-> TRUE]
                          ELSE [key |-> <<>>, n |-> 0, passed |-> FALSE]
            /\ UNCHANGED <<trace, log, built>>

\* The left and middle pickers of the demonstration: no modifier key, unused
\* navigation input returned
InitFocus == Init /\ return_unused_navigation_input

SpecFocus == InitFocus /\ [][Press]_vars

\* The arguments of IntegerPicker(value, min_v=..., ...); the bars' and the
\* display's appearance stay at their defaults
Arguments ==
    [value : Ints, min_v : Ints, max_v : Ints, step_len : StepLens, jump_len : JumpLens,
     on_selection_change : BOOLEAN, initialization_is_selection_change : BOOLEAN,
     modifier_key : Modifiers, ascending : BOOLEAN,
     return_unused_navigation_input : BOOLEAN]

\* No field exists: the object as __init__ receives it
blank ==
    [value |-> Unset, minimum |-> Unset, maximum |-> Unset, step_len |-> Unset,
     jump_len |-> Unset, on_selection_change |-> Unset, modifier_key |-> Unset,
     ascending |-> Unset, return_unused_navigation_input |-> Unset, display |-> Unset,
     top_bar |-> Unset, bottom_bar |-> Unset, calls |-> <<>>, seen |-> <<>>,
     entered |-> <<>>, left |-> <<>>, returned |-> "None"]

\* __init__ without the assertion on the value
init_unchecked_value(a) ==
    IF ~(a.min_v <= a.max_v)
    THEN [blank EXCEPT !.returned = "AssertionError"]
    ELSE LET o == [blank EXCEPT
                      !.value = a.value,
                      !.minimum = a.min_v,
                      !.maximum = a.max_v,
                      !.step_len = a.step_len,
                      !.jump_len = a.jump_len,
                      !.on_selection_change = a.on_selection_change,
                      !.modifier_key = a.modifier_key,
                      !.ascending = a.ascending,
                      !.return_unused_navigation_input = a.return_unused_navigation_input,
                      !.top_bar = [text |-> "", attr |-> "None"],
                      !.bottom_bar = [text |-> "", attr |-> "None"],
                      !.display = Format(a.value)]
         IN  IF a.initialization_is_selection_change /\ a.on_selection_change
             THEN [o EXCEPT !.calls = << <<"None", a.value>> >>, !.seen = <<o.display>>,
                            !.entered = <<Fields(o)>>, !.left = <<Fields(o)>>]
             ELSE o

\* __init__ that runs the hook whatever initialization_is_selection_change is
init_always_notifies(a) ==
    IF ~(a.min_v <= a.max_v)
    THEN [blank EXCEPT !.returned = "AssertionError"]
    ELSE IF ~(a.min_v <= a.value /\ a.value <= a.max_v)
    THEN [blank EXCEPT !.returned = "AssertionError"]
    ELSE LET o == [blank EXCEPT
                      !.value = a.value,
                      !.minimum = a.min_v,
                      !.maximum = a.max_v,
                      !.step_len = a.step_len,
                      !.jump_len = a.jump_len,
                      !.on_selection_change = a.on_selection_change,
                      !.modifier_key = a.modifier_key,
                      !.ascending = a.ascending,
                      !.return_unused_navigation_input = a.return_unused_navigation_input,
                      !.top_bar = [text |-> "", attr |-> "None"],
                      !.bottom_bar = [text |-> "", attr |-> "None"],
                      !.display = Format(a.value)]
         IN  IF a.on_selection_change
             THEN [o EXCEPT !.calls = << <<"None", a.value>> >>, !.seen = <<o.display>>,
                            !.entered = <<Fields(o)>>, !.left = <<Fields(o)>>]
             ELSE o

\* IntegerPicker.__init__(value, min_v=..., ...), assertions enabled
init(a) ==
    IF ~(a.min_v <= a.max_v)
    THEN [blank EXCEPT !.returned = "AssertionError"]
    ELSE IF ~(a.min_v <= a.value /\ a.value <= a.max_v)
    THEN [blank EXCEPT !.returned = "AssertionError"]
    ELSE LET o == [blank EXCEPT
                      !.value = a.value,
                      !.minimum = a.min_v,
                      !.maximum = a.max_v,
                      !.step_len = a.step_len,
                      !.jump_len = a.jump_len,
                      !.on_selection_change = a.on_selection_change,
                      !.modifier_key = a.modifier_key,
                      !.ascending = a.ascending,
                      !.return_unused_navigation_input = a.return_unused_navigation_input,
                      !.top_bar = [text |-> "", attr |-> "None"],
                      !.bottom_bar = [text |-> "", attr |-> "None"],
                      !.display = Format(a.value)]
         IN  IF a.initialization_is_selection_change /\ a.on_selection_change
             THEN [o EXCEPT !.calls = << <<"None", a.value>> >>, !.seen = <<o.display>>,
                            !.entered = <<Fields(o)>>, !.left = <<Fields(o)>>]
             ELSE o

\* Before the constructor is called: no object, nothing called
InitConstruct ==
    /\ value = Unset
    /\ minimum = Unset
    /\ maximum = Unset
    /\ step_len = Unset
    /\ jump_len = Unset
    /\ ascending = Unset
    /\ return_unused_navigation_input = Unset
    /\ on_selection_change = Unset
    /\ modifier_key = Unset
    /\ reaction = Nothing
    /\ display = Unset
    /\ top_bar = Unset
    /\ bottom_bar = Unset
    /\ calls = <<>>
    /\ seen = <<>>
    /\ entered = <<>>
    /\ left = <<>>
    /\ trace = <<>>
    /\ log = <<>>
    /\ streak = [key |-> <<>>, n |-> 0, passed |-> FALSE]
    /\ built = Unset
    /\ last = [op |-> "nothing", arg |-> <<>>, value |-> Unset, minimum |-> Unset,
               maximum |-> Unset, display |-> Unset, returned |-> "None"]

\* IntegerPicker(...) is evaluated, once
Construct ==
    /\ last.op = "nothing"
    /\ \E a \in Arguments :
        LET o == init(a)
        IN  /\ value' = o.value
            /\ minimum' = o.minimum
            /\ maximum' = o.maximum
            /\ step_len' = o.step_len
            /\ jump_len' = o.jump_len
            /\ ascending' = o.ascending
            /\ return_unused_navigation_input' = o.return_unused_navigation_input
            /\ on_selection_change' = o.on_selection_change
            /\ modifier_key' = o.modifier_key
            /\ display' = o.display
            /\ top_bar' = o.top_bar
            /\ bottom_bar' = o.bottom_bar
            /\ calls' = o.calls
            /\ seen' = o.seen
            /\ entered' = o.entered
            /\ left' = o.left
            /\ UNCHANGED reaction
            /\ last' = [op |-> "__init__", arg |-> a, value |-> value, minimum |-> minimum,
                        maximum |-> maximum, display |-> display, returned |-> o.returned]
            /\ UNCHANGED history

SpecConstruct == InitConstruct /\ [][Construct]_vars

\* The arguments of the picker whose life is followed: no modifier key, the
\* longest jump, unused navigation input returned
LifetimeArguments ==
    {a \in Arguments : /\ a.modifier_key = "NONE"
                       /\ a.jump_len = MaxJump
                       /\ a.return_unused_navigation_input}

\* The client evaluates IntegerPicker(...) and keeps what the hook was told
Build ==
    /\ last.op = "nothing"
    /\ \E a \in LifetimeArguments :
        LET o == init(a)
        IN  /\ value' = o.value
            /\ minimum' = o.minimum
            /\ maximum' = o.maximum
            /\ step_len' = o.step_len
            /\ jump_len' = o.jump_len
            /\ ascending' = o.ascending
            /\ return_unused_navigation_input' = o.return_unused_navigation_input
            /\ on_selection_change' = o.on_selection_change
            /\ modifier_key' = o.modifier_key
            /\ display' = o.display
            /\ top_bar' = o.top_bar
            /\ bottom_bar' = o.bottom_bar
            /\ calls' = o.calls
            /\ seen' = o.seen
            /\ entered' = o.entered
            /\ left' = o.left
            /\ last' = [op |-> "__init__", arg |-> a, value |-> value, minimum |-> minimum,
                        maximum |-> maximum, display |-> display, returned |-> o.returned]
            /\ built' = a
            /\ log' = o.calls
            /\ UNCHANGED <<reaction, trace, streak>>

\* The calls the client makes on the picker it has built
MethodCalls ==
    {[op |-> "_change_value", arg |-> d] : d \in Summands}
    \cup {[op |-> m, arg |-> Fin(v)] : m \in {"set_value", "set_minimum", "set_maximum"},
                                      v \in Ints}
    \cup {[op |-> m, arg |-> Fin(0)] : m \in {"set_to_minimum", "set_to_maximum"}}

\* picker.<op>(<arg>)
invoke(s, c) ==
    CASE c.op = "_change_value" -> change_value(s, c.arg)
      [] c.op = "set_value" -> set_value(s, c.arg.n)
      [] c.op = "set_minimum" -> set_minimum(s, c.arg.n)
      [] c.op = "set_maximum" -> set_maximum(s, c.arg.n)
      [] c.op = "set_to_minimum" -> set_to_minimum(s)
      [] c.op = "set_to_maximum" -> set_to_maximum(s)

\* The client calls a method of the picker it gave a hook; it is followed
\* until the hook has been invoked for the first time
Use ==
    /\ last.op # "nothing"
    /\ last.returned # "AssertionError"
    /\ on_selection_change
    /\ log = <<>>
    /\ \E c \in MethodCalls :
        LET out == invoke(self, c)
        IN  /\ Returns(c.op, c.arg, out)
            /\ log' = out.calls
            /\ UNCHANGED <<trace, streak, built>>

NextLifetime ==
    \/ Build
    \/ Use

\* A picker from the constructor call to the first invocation of its hook
SpecLifetime == InitConstruct /\ [][NextLifetime]_vars

\* The scenario of the specification, section 8: IntegerPicker(0, min_v=0,
\* max_v=10, step_len=..., on_selection_change=hook), the other arguments at
\* their defaults, and a recorded sequence of step and home / end commands
InitScenario ==
    /\ value = 0
    /\ minimum = 0
    /\ maximum = 10
    /\ step_len \in StepLens
    /\ jump_len \in JumpLens
    /\ ascending = TRUE
    /\ return_unused_navigation_input = TRUE
    /\ on_selection_change = TRUE
    /\ modifier_key = "NONE"
    /\ reaction = Nothing
    /\ display = Format(value)
    /\ top_bar = [text |-> "", attr |-> "None"]
    /\ bottom_bar = [text |-> "", attr |-> "None"]
    /\ calls = <<>>
    /\ seen = <<>>
    /\ entered = <<>>
    /\ left = <<>>
    /\ trace = <<>>
    /\ log = <<>>
    /\ streak = [key |-> <<>>, n |-> 0, passed |-> FALSE]
    /\ built = Unset
    /\ last = [op |-> "__init__", arg |-> Fin(value), value |-> value, minimum |-> minimum,
               maximum |-> maximum, display |-> Format(value), returned |-> "None"]

\* _change_value(summand), recorded
Command ==
    \E summand \in {Fin(-step_len), Fin(step_len), NegInf, PosInf} :
        LET out == change_value(self, summand)
        IN  /\ Len(trace) < MaxTrace
            /\ Returns("_change_value", summand, out)
            /\ trace' = Append(trace, summand)
            /\ log' = log \o out.calls
            /\ UNCHANGED <<streak, built>>

SpecScenario == InitScenario /\ [][Command]_vars

\* ------------------------------------------------------------ properties
\* What the latest call was, and whether it raised
Called(op) == last.op = op
Raised == last.returned \in {"ValueError", "OverflowError"}
FieldsUnchanged == value = last.value /\ minimum = last.minimum /\ maximum = last.maximum
ValueChanged == value # last.value

\* x limited to [lo, hi]
Clamp(x, lo, hi) == IF x < lo THEN lo ELSE IF x > hi THEN hi ELSE x

\* The value apply_delta(d) is specified to leave: the candidate
\* value + direction*d limited to [lo, hi], an infinite candidate being the bound
Saturated(v, d, lo, hi) ==
    LET direction == IF ascending THEN 1 ELSE -1
    IN  IF d.inf = 0 THEN Clamp(v + direction * d.n, lo, hi)
        ELSE IF direction * d.inf > 0 THEN hi ELSE lo

\* C1: after construction and after every call of _change_value, set_value,
\* set_to_minimum, set_to_maximum, set_minimum and set_maximum, whether it
\* succeeded or raised, minimum <= value <= maximum (hence minimum <= maximum).
C1_ValueWithinBounds == minimum <= value /\ value <= maximum /\ minimum <= maximum

\* C1 witness: a set_minimum above the value has moved the value up to the new minimum
C1_Witness ==
    /\ Called("set_minimum")
    /\ last.value < last.arg.n
    /\ ~Raised
    /\ minimum = last.arg.n
    /\ value = minimum

\* C2: for every nonzero delta d, _change_value(d) does not raise, leaves the
\* value at old value + direction*d limited to [minimum, maximum] (an infinite
\* candidate saturating to the bound), and leaves minimum and maximum alone.
C2_ApplyDeltaSaturates ==
    (Called("_change_value") /\ last.arg # Fin(0)) =>
        /\ ~Raised
        /\ value = Saturated(last.value, last.arg, last.minimum, last.maximum)
        /\ minimum = last.minimum
        /\ maximum = last.maximum

\* C3: with a hook set, every call invokes the hook exactly once, with (value
\* before, value after), when it leaves the value different, and not at all
\* when it leaves the value as it was (also when it raises).
C3_HookIffValueChanged ==
    (on_selection_change /\ ~Called("__init__")) =>
        calls = IF ValueChanged THEN << <<last.value, value>> >> ELSE << >>

\* C3 witness: a _change_value moved the value and the hook ran once
C3_Witness ==
    /\ on_selection_change
    /\ Called("_change_value")
    /\ ValueChanged
    /\ calls = << <<last.value, value>> >>

\* The command d moves toward minimum / toward maximum
TowardMinimum(d) == IF ascending THEN IsNeg(d) ELSE IsPos(d)
TowardMaximum(d) == IF ascending THEN IsPos(d) ELSE IsNeg(d)

\* Before the latest call the value was at the bound the command d moves toward
WasExhausted(d) ==
    \/ TowardMinimum(d) /\ last.value = last.minimum
    \/ TowardMaximum(d) /\ last.value = last.maximum

\* C4: with return_unused_navigation_input true, _change_value with a negative
\* amount at the low bound of the direction (minimum when ascending, maximum when
\* descending) returns False, leaves the value and invokes no hook; the same for
\* a positive amount at the opposite bound.
C4_ExhaustedInputReturned ==
    (Called("_change_value") /\ return_unused_navigation_input /\ WasExhausted(last.arg)) =>
        /\ last.returned = "False"
        /\ value = last.value
        /\ calls = << >>

\* C5: with return_unused_navigation_input false, _change_value at the bound the
\* command moves toward returns True, leaves value, minimum and maximum and
\* invokes no hook; the state being the same, so does every repetition.
C5_ExhaustedInputSwallowed ==
    (Called("_change_value") /\ ~return_unused_navigation_input /\ WasExhausted(last.arg)) =>
        /\ last.returned = "True"
        /\ FieldsUnchanged
        /\ calls = << >>

\* C6: _change_value returns True in every call that sets or clamps the value
\* and in every call made with return_unused_navigation_input false; it returns
\* False only at the already reached bound with return_unused_navigation_input true.
C6_HandledResult ==
    Called("_change_value") =>
        /\ ValueChanged => last.returned = "True"
        /\ ~return_unused_navigation_input => last.returned = "True"
        /\ last.returned = "False" =>
               (return_unused_navigation_input /\ WasExhausted(last.arg))

\* C7: set_value(v) raises ValueError and leaves value, minimum and maximum (no
\* hook) when v is outside [minimum, maximum]; does nothing (no hook) when v is
\* the current value; otherwise sets the value to v and invokes the hook once
\* with (old value, v).
C7_SetValue ==
    Called("set_value") =>
        LET v == last.arg.n
        IN  IF v < last.minimum \/ v > last.maximum
            THEN last.returned = "ValueError" /\ FieldsUnchanged /\ calls = << >>
            ELSE IF v = last.value
            THEN ~Raised /\ FieldsUnchanged /\ calls = << >>
            ELSE /\ ~Raised
                 /\ value = v
                 /\ minimum = last.minimum
                 /\ maximum = last.maximum
                 /\ calls = IF on_selection_change THEN << <<last.value, v>> >> ELSE << >>

\* C7 witness: a set_value outside the bounds raised
C7_Witness ==
    /\ Called("set_value")
    /\ (last.arg.n < last.minimum \/ last.arg.n > last.maximum)
    /\ last.returned = "ValueError"

\* C8: set_minimum(new_min) with new_min > maximum and set_maximum(new_max)
\* with new_max < minimum raise ValueError and leave value, minimum and maximum
\* as they were, without invoking the hook.
C8_InvertedBoundsRejected ==
    /\ (Called("set_minimum") /\ last.arg.n > last.maximum) =>
           (last.returned = "ValueError" /\ FieldsUnchanged /\ calls = << >>)
    /\ (Called("set_maximum") /\ last.arg.n < last.minimum) =>
           (last.returned = "ValueError" /\ FieldsUnchanged /\ calls = << >>)

\* C8 witness: a set_minimum above the maximum raised
C8_Witness ==
    /\ Called("set_minimum")
    /\ last.arg.n > last.maximum
    /\ last.returned = "ValueError"

\* C9: after set_minimum(v) with value < v <= maximum, minimum = v and
\* value = v, and the hook was invoked exactly once, with (old value, v).
C9_SetMinimumAboveValue ==
    (Called("set_minimum") /\ last.arg.n > last.value /\ last.arg.n <= last.maximum) =>
        /\ ~Raised
        /\ minimum = last.arg.n
        /\ value = last.arg.n
        /\ on_selection_change => calls = << <<last.value, last.arg.n>> >>

\* C9 witness: the hook reported the move of the value to the new minimum
C9_Witness ==
    /\ Called("set_minimum")
    /\ last.arg.n > last.value
    /\ last.arg.n < last.maximum
    /\ on_selection_change
    /\ calls = << <<last.value, minimum>> >>

\* C10: after every successful set_minimum or set_maximum the value is the old
\* value limited to the new [minimum, maximum], the other bound is unchanged,
\* and the hook is invoked (once, with old and new value) exactly when the old
\* value was outside the new bounds; so set_maximum(v) with minimum <= v < value
\* sets the value to v.
C10_BoundChangeClamps ==
    ((Called("set_minimum") \/ Called("set_maximum")) /\ ~Raised) =>
        /\ Called("set_minimum") => (minimum = last.arg.n /\ maximum = last.maximum)
        /\ Called("set_maximum") => (maximum = last.arg.n /\ minimum = last.minimum)
        /\ value = Clamp(last.value, minimum, maximum)
        /\ on_selection_change =>
               calls = IF last.value < minimum \/ last.value > maximum
                       THEN << <<last.value, value>> >>
                       ELSE << >>

\* C10 witness: set_maximum(v) with minimum <= v < value moved the value to v
C10_Witness ==
    /\ Called("set_maximum")
    /\ last.minimum <= last.arg.n
    /\ last.arg.n < last.value
    /\ value = last.arg.n
    /\ on_selection_change
    /\ calls = << <<last.value, last.arg.n>> >>

\* C11: from every state _change_value(float("inf")) leaves the value at maximum
\* when ascending and at minimum otherwise, and _change_value(float("-inf")) at
\* minimum when ascending and at maximum otherwise, whatever the value was; the
\* hook is invoked exactly once if the value changed and not at all otherwise.
C11_SentinelReachesBound ==
    (Called("_change_value") /\ last.arg.inf # 0) =>
        /\ value = IF TowardMaximum(last.arg) THEN maximum ELSE minimum
        /\ on_selection_change =>
               calls = IF ValueChanged THEN << <<last.value, value>> >> ELSE << >>

\* C12 as claimed: ascending, value = minimum and maximum - minimum < jump_len:
\* _change_value(jump_len) leaves the value at maximum and invokes the hook
\* with (minimum, maximum).
C12_JumpBeyondRange ==
    (/\ Called("_change_value")
     /\ ascending
     /\ last.arg = Fin(jump_len)
     /\ last.value = last.minimum
     /\ last.maximum - last.minimum < jump_len
     /\ on_selection_change) =>
        /\ value = maximum
        /\ calls = << <<last.minimum, last.maximum>> >>

\* C12 amended: the same when in addition minimum < maximum; when
\* minimum = maximum the value is already at maximum, the call leaves it and
\* invokes no hook.
C12_JumpBeyondRangeAmended ==
    (/\ Called("_change_value")
     /\ ascending
     /\ last.arg = Fin(jump_len)
     /\ last.value = last.minimum
     /\ last.maximum - last.minimum < jump_len) =>
        /\ value = maximum
        /\ minimum = last.minimum
        /\ maximum = last.maximum
        /\ last.returned = IF last.minimum < last.maximum \/ ~return_unused_navigation_input
                           THEN "True" ELSE "False"
        /\ on_selection_change =>
               calls = IF last.minimum < last.maximum
                       THEN << <<last.minimum, last.maximum>> >>
                       ELSE << >>

\* C12 witness: the jump from minimum was cut at a maximum closer than jump_len
C12_Witness ==
    /\ Called("_change_value")
    /\ ascending
    /\ last.arg = Fin(jump_len)
    /\ last.value = last.minimum
    /\ last.minimum < last.maximum
    /\ last.maximum - last.minimum < jump_len
    /\ value = maximum
    /\ calls = << <<last.minimum, last.maximum>> >>

\* The first k pairs (0,1), (1,2), ... scaled by the step length
Pairs(k, step) == [i \in 1..k |-> <<(i - 1) * step, i * step>>]

\* k times the command d
Repeat(k, d) == [i \in 1..k |-> d]

\* The sum of the first k recorded summands, all of them finite
RECURSIVE PartialSum(_)
PartialSum(k) == IF k = 0 THEN 0 ELSE PartialSum(k - 1) + trace[k].n

\* All recorded commands are steps and none of them leaves [minimum, maximum]
StepsWithinBounds ==
    \A k \in 1..Len(trace) :
        /\ trace[k] \in {Fin(-step_len), Fin(step_len)}
        /\ minimum <= PartialSum(k)
        /\ PartialSum(k) <= maximum

\* C13: from value 0 in [0, 10], ascending, step_len 1: _change_value(-1) returns
\* False and leaves 0; then _change_value(1) five times leaves 5 after hook calls
\* (0,1), (1,2), (2,3), (3,4), (4,5) and no others; then _change_value(inf) leaves
\* 10. For any step length, k steps that stay within the bounds make k hook
\* calls, and in every run each call's previous value is the new value of the
\* call before it.
C13_Scenario ==
    /\ step_len = 1 =>
           /\ trace = <<Fin(-1)>> =>
                  (last.returned = "False" /\ value = 0 /\ log = << >>)
           /\ \A k \in 1..5 :
                  trace = <<Fin(-1)>> \o Repeat(k, Fin(1)) =>
                      (value = k /\ log = Pairs(k, 1) /\ last.returned = "True")
           /\ trace = <<Fin(-1)>> \o Repeat(5, Fin(1)) \o <<PosInf>> =>
                  (value = 10 /\ log = Pairs(5, 1) \o << <<5, 10>> >>)
    /\ StepsWithinBounds =>
           (Len(log) = Len(trace) /\ value = PartialSum(Len(trace)))
    /\ \A k \in 1..MaxTrace :
           trace = Repeat(k, Fin(step_len)) /\ k * step_len <= maximum =>
               log = Pairs(k, step_len)
    /\ \A i \in 1..(Len(log) - 1) : log[i][2] = log[i + 1][1]

\* C13 witness: the scenario has been played to its end
C13_Witness ==
    /\ step_len = 1
    /\ trace = <<Fin(-1)>> \o Repeat(5, Fin(1)) \o <<PosInf>>
    /\ value = 10
    /\ Len(log) = 6

\* C14: IntegerPicker(...) with min_v > max_v, or with a value outside
\* [min_v, max_v], fails at once: no field of the object has been assigned and
\* the hook has not been invoked.
C14_InvalidConstructionFails ==
    (/\ Called("__init__")
     /\ \/ last.arg.min_v > last.arg.max_v
        \/ last.arg.value < last.arg.min_v
        \/ last.arg.value > last.arg.max_v) =>
        /\ last.returned = "AssertionError"
        /\ <<value, minimum, maximum, step_len, jump_len, ascending,
             return_unused_navigation_input, on_selection_change, modifier_key,
             display, top_bar, bottom_bar>> = [i \in 1..12 |-> Unset]
        /\ calls = << >>

\* C14 witness: a constructor call with the value above max_v has failed, with a
\* hook that was to be told of the initialization
C14_Witness ==
    /\ Called("__init__")
    /\ last.arg.min_v <= last.arg.max_v
    /\ last.arg.value > last.arg.max_v
    /\ last.arg.on_selection_change
    /\ last.arg.initialization_is_selection_change
    /\ last.returned = "AssertionError"
    /\ value = Unset

\* The command mapping of the specification, section 4: key name to delta
DeltaOf(k) ==
    IF k = <<"up">> THEN Fin(-step_len)
    ELSE IF k = <<"down">> THEN Fin(step_len)
    ELSE IF k = <<"page", "up">> THEN Fin(-jump_len)
    ELSE IF k = <<"page", "down">> THEN Fin(jump_len)
    ELSE IF k = <<"home">> THEN NegInf
    ELSE PosInf

\* The object as it was before the latest call
Before ==
    [value |-> last.value, minimum |-> last.minimum, maximum |-> last.maximum,
     display |-> last.display, calls |-> << >>, seen |-> << >>, entered |-> << >>,
     left |-> << >>, returned |-> "None"]

\* The latest call left the fields and made the hook calls of the outcome o
SameEffect(o) ==
    /\ value = o.value
    /\ minimum = o.minimum
    /\ maximum = o.maximum
    /\ calls = o.calls

\* C15: keypress maps the keys up, down, page up, page down, home, end (with the
\* modifier prefix) to the deltas -step_len, +step_len, -jump_len, +jump_len,
\* -inf, +inf; it returns None exactly when the command was handled (the value
\* was set or clamped, or exhausted input is swallowed) and otherwise returns the
\* key; when it returns the key, value, minimum and maximum are unchanged and
\* the hook is not invoked.
C15_KeypressPropagates ==
    Called("keypress") =>
        /\ \A k \in NavigationKeys :
               last.arg.key = prepend_to(modifier_key, k) =>
                   /\ value = Saturated(last.value, DeltaOf(k), last.minimum, last.maximum)
                   /\ last.returned =
                          IF return_unused_navigation_input /\ WasExhausted(DeltaOf(k))
                          THEN "key" ELSE "None"
        /\ last.returned \in {"None", "key"}
        /\ last.returned = "key" => (FieldsUnchanged /\ calls = << >>)
        /\ (\A k \in NavigationKeys : last.arg.key # prepend_to(modifier_key, k)) =>
               last.returned = "key"

\* C16: with a modifier key other than NONE, a navigation key without the
\* modifier and a mouse press without the modifier are not consumed and change
\* nothing, while the key with the modifier prefix has the effect and the
\* result of _change_value with the corresponding delta, and the wheel press
\* with the modifier prefix on the focused picker that of the jump.
C16_ModifierGate ==
    modifier_key # "NONE" =>
        /\ (Called("keypress") /\ last.arg.key \in NavigationKeys) =>
               (last.returned = "key" /\ FieldsUnchanged /\ calls = << >>)
        /\ (Called("mouse_event") /\ last.arg.event = <<"mouse", "press">>) =>
               (last.returned = "False" /\ FieldsUnchanged /\ calls = << >>)
        /\ \A k \in NavigationKeys :
               (Called("keypress") /\ last.arg.key = MODIFIER_KEY[modifier_key] \o k) =>
                   LET o == change_value(Before, DeltaOf(k))
                   IN  /\ SameEffect(o)
                       /\ last.returned = IF o.returned = "True" THEN "None"
                                          ELSE IF o.returned = "False" THEN "key"
                                          ELSE o.returned
        /\ (/\ Called("mouse_event")
            /\ last.arg.event = MODIFIER_KEY[modifier_key] \o <<"mouse", "press">>
            /\ last.arg.focus
            /\ last.arg.button \in {4, 5}) =>
               SameEffect(change_value(Before,
                             IF last.arg.button = 4 THEN Fin(-jump_len) ELSE Fin(jump_len)))

\* C16 witness: a plain "down" was left to the other widgets by a picker with
\* modifier key, although its value could have moved
C16_Witness ==
    /\ modifier_key = "CTRL"
    /\ Called("keypress")
    /\ last.arg.key = <<"down">>
    /\ last.returned = "key"
    /\ last.minimum < last.value
    /\ last.value < last.maximum

\* C19: on a focused picker the mouse press (with the modifier prefix) of
\* button 4 / button 5 does what the key page up / page down does from the same
\* state: same value, same hook calls, and it returns True exactly when the key
\* would be consumed; any other event or button, or a picker without focus,
\* returns False, leaves the value and invokes no hook.
C19_WheelIsPageKey ==
    Called("mouse_event") =>
        IF /\ last.arg.focus
           /\ last.arg.event = prepend_to(modifier_key, <<"mouse", "press">>)
           /\ last.arg.button \in {4, 5}
        THEN LET page == IF last.arg.button = 4 THEN <<"page", "up">> ELSE <<"page", "down">>
                 o == keypress(Before, prepend_to(modifier_key, page))
             IN  /\ SameEffect(o)
                 /\ (last.returned = "True") = (o.returned = "None")
                 /\ last.returned \in {"True", "False"}
        ELSE last.returned = "False" /\ FieldsUnchanged /\ calls = << >>

\* C19 witness: a wheel-down press moved the value of the focused picker
C19_Witness ==
    /\ Called("mouse_event")
    /\ last.arg.focus
    /\ last.arg.button = 5
    /\ last.returned = "True"
    /\ ValueChanged
    /\ on_selection_change
    /\ calls = << <<last.value, value>> >>

\* C18: after construction and after every call (failing and idle ones
\* included) the displayed text is the formatted current value, and at every
\* hook invocation the displayed text was already that of the new value.
C18_DisplayShowsValue ==
    /\ display = Format(value)
    /\ Len(seen) = Len(calls)
    /\ \A i \in 1..Len(calls) : seen[i] = Format(calls[i][2])

\* C18 witness: a call changed the value, the hook ran and saw the new text
C18_Witness ==
    /\ on_selection_change
    /\ ValueChanged
    /\ display # last.display
    /\ Len(calls) = 1
    /\ seen = <<Format(value)>>

\* C20: for either arrangement, render shows the top bar with its 'end
\* exposed' markup exactly when _change_value(-step_len), the 'up' command, would
\* leave the value, and the bottom bar with its 'end exposed' markup exactly when
\* _change_value(step_len), 'down', would; render leaves value, minimum, maximum.
C20_BarsShowExhaustion ==
    Called("render") =>
        /\ (top_bar.text = "topBar_endExposed_markup") =
               (change_value(self, Fin(-step_len)).value = value)
        /\ (top_bar.text = "topBar_endCovered_markup") =
               (change_value(self, Fin(-step_len)).value # value)
        /\ (bottom_bar.text = "bottomBar_endExposed_markup") =
               (change_value(self, Fin(step_len)).value = value)
        /\ (bottom_bar.text = "bottomBar_endCovered_markup") =
               (change_value(self, Fin(step_len)).value # value)
        /\ FieldsUnchanged

\* C20 witness: a descending picker at its maximum is drawn with the top end
\* exposed and the bottom end covered
C20_Witness ==
    /\ Called("render")
    /\ ~ascending
    /\ value = maximum
    /\ minimum < maximum
    /\ top_bar.text = "topBar_endExposed_markup"
    /\ bottom_bar.text = "bottomBar_endCovered_markup"

\* C17: a picker without modifier key that returns unused navigation input
\* hands a navigation key back only when the value already is at the bound in
\* the key's direction; pressing up (or down) again and again, at most
\* ceil((maximum - minimum) / step_len) presses are consumed, and the press at
\* the bound is handed back.
C17_FocusTraversal ==
    /\ (Called("keypress") /\ last.returned = "key") =>
           (WasExhausted(DeltaOf(last.arg.key)) /\ FieldsUnchanged)
    /\ (Called("keypress") /\ last.arg.key \in {<<"up">>, <<"down">>}
            /\ WasExhausted(DeltaOf(last.arg.key))) =>
           last.returned = "key"
    /\ streak.key \in {<<"up">>, <<"down">>} =>
           streak.n * step_len < (maximum - minimum) + step_len

\* C17 witness: three presses of "down" were consumed and the fourth came back
C17_Witness ==
    /\ streak = [key |-> <<"down">>, n |-> 3, passed |-> TRUE]
    /\ Called("keypress")
    /\ last.returned = "key"
    /\ ascending
    /\ value = maximum

\* C21: the hook is the last step of a call that touches value, minimum or
\* maximum. When the hook is invoked the value is its second argument and lies
\* within [minimum, maximum] (also when set_minimum / set_maximum moved it), and
\* the call writes none of the three after the hook has ended: what a hook that
\* calls set_value or _change_value itself has selected stays, and
\* minimum <= value <= maximum holds when the outermost call returns or raises.
C21_HookIsLastStep ==
    /\ Len(entered) = Len(calls)
    /\ Len(left) = Len(calls)
    /\ \A i \in 1..Len(calls) :
           /\ entered[i].value = calls[i][2]
           /\ entered[i].minimum <= entered[i].value
           /\ entered[i].value <= entered[i].maximum
    /\ calls # << >> =>
           left[Len(left)] = [value |-> value, minimum |-> minimum, maximum |-> maximum]
    /\ (calls # << >> /\ reaction.op = "set_value" /\ ~Raised) => value = reaction.arg.n
    /\ minimum <= value
    /\ value <= maximum

\* C21 witness: set_minimum moved the value up to the new minimum, the hook
\* then selected another value with set_value, and that value stayed
C21_Witness ==
    /\ Called("set_minimum")
    /\ last.value < last.arg.n
    /\ reaction.op = "set_value"
    /\ calls = << <<last.value, last.arg.n>>, <<last.arg.n, reaction.arg.n>> >>
    /\ minimum = last.arg.n
    /\ value = reaction.arg.n
    /\ value # minimum

\* C22: a constructor call that succeeds invokes the hook exactly once, with
\* (None, value), when initialization_is_selection_change is true and a hook is
\* given, and not at all otherwise; so with the default, false, the first
\* invocation a client ever sees has the constructor's value as its first argument.
C22_InitializationHook ==
    /\ (Called("__init__") /\ last.returned # "AssertionError") =>
           calls = IF last.arg.initialization_is_selection_change
                        /\ last.arg.on_selection_change
                   THEN << <<"None", last.arg.value>> >>
                   ELSE << >>
    /\ (~Called("nothing") /\ log # << >>) =>
           log[1] = IF built.initialization_is_selection_change
                    THEN <<"None", built.value>>
                    ELSE <<built.value, entered[1].value>>
    /\ (~Called("nothing") /\ last.returned # "AssertionError" /\ log = << >>
            /\ on_selection_change) =>
           value = built.value

\* C22 witness: a picker built with the default setting and a hook; set_maximum
\* below the value was the first call to invoke the hook, with the value the
\* picker was built with first
C22_Witness ==
    /\ Called("set_maximum")
    /\ ~built.initialization_is_selection_change
    /\ built.on_selection_change
    /\ log = << <<built.value, maximum>> >>
    /\ built.value > maximum

====
